---- MODULE Spec2Model ----
(***************************************************************************)
(* LiteDB (React/Electron SQLite + PostgreSQL viewer/editor).              *)
(*                                                                         *)
(* The module holds several state machines over one set of variables:      *)
(*   Spec        UploadView + AppLayout + DatabaseView: session flags,     *)
(*               navigation, table selection and table loading             *)
(*   SpecMut     DatabaseView.handleUpdateRow: row update / row delete     *)
(*   SpecBatch   the batch execution engine (script, transaction toggle)   *)
(*   SpecSchema  SchemaVisualizer: the schema load effect                  *)
(*   SpecSchemaLive  the same while the backend answers every call         *)
(*   SpecSchemaSettle  the same while every call resolves or rejects       *)
(*   SpecLayout  calculateLayout step by step, then TableNode rendering    *)
(*   SpecNet     statements issued on the networked session                *)
(*   SpecRefresh the header refresh next to a running batch                *)
(*   SpecSave    DatabaseView.handleSaveDatabase and the handlers around   *)
(* Each specification leaves the variables of the other machines at their  *)
(* idle values.                                                            *)
(***************************************************************************)
EXTENDS Integers, Sequences, FiniteSets, TLC

VARIABLES
  \* ---- hooks useDatabase / usePostgres, router, window.electron
  route,          \* location.pathname: "/" (UploadView) or "/database" (DatabaseView)
  isLoaded,       \* useDatabase().isLoaded : an embedded (SQLite) session is live
  isConnected,    \* usePostgres().isConnected : a networked (PostgreSQL) session is live
  electron,       \* window.electron is present
  \* ---- DatabaseView component state
  activeTab,      \* useState('browse')
  selectedTable,  \* useState('')
  loading,        \* useState(false)
  tableData,      \* tableColumns/tableData: the table and backend they were loaded for
  timers,         \* pending setTimeout(() => setSelectedTable(t), 0) callbacks
  loads,          \* in-flight loadTableData() calls awaiting PostgreSQL
  uiEvent,        \* the last handler that ran: its failure, its toast, its navigation
  \* ---- row mutation (handleUpdateRow and the two services)
  db,             \* rows of every table of the database the active service talks to
  lastCall,       \* the last request handed to a backend service
  mutResult,      \* what the last handleUpdateRow call gave its caller
  \* ---- batch execution engine
  batch,          \* the running batch: script, mode, position, state
  bdb,            \* the database the batch runs against (committed state)
  btx,            \* working state inside the open transaction
  results,        \* StatementResult list of the current batch
  \* ---- SchemaVisualizer
  svTables,       \* props.tables (their names), as rendered last
  schemaData,     \* useState<SchemaTable[]>([])
  svNodes,        \* useNodesState([])
  svEdges,        \* useEdgesState([])
  svLoading,      \* useState(true)
  hasLoaded,      \* useState(false)
  reloads,        \* loadSchema() calls in flight: their table list, mounted flag, replies
  nextReload,     \* number of loadSchema() calls started so far
  svEvent,        \* the last schema load that settled: failure, toast, what it replaced
  \* ---- calculateLayout (one run of the auto-layout algorithm)
  lyTables,       \* tables: SchemaTable[] handed to calculateLayout
  lyPhase,        \* which loop of calculateLayout is running
  lyIndex,        \* position of that loop in tables
  lyStack,        \* call stack of calculateLevel
  lyVisited,      \* visited: Set<string>
  lyLevels,       \* levels: Map<string, number>
  lyCalls,        \* how often calculateLevel got past its visited check, per table
  lyNodes,        \* nodes returned
  lyEdges,        \* edges returned
  lyRendered,     \* what TableNode renders for each returned node
  \* ---- the networked session's connection (usePostgres / pgService)
  pgQueue,        \* statements issued on the session and not yet started
  pgActive,       \* statements running on the physical connection
  pgCalls,        \* number of load calls made so far
  \* ---- table-list refresh (refreshTables of the active hook)
  refresh,        \* "idle", or "running" while the catalog queries are out
  \* ---- saving the embedded database (handleSaveDatabase)
  file,           \* what the database file on disk holds
  filePath,       \* dbService.currentFilePath
  lastSaved,      \* useState<Date | null>(null)
  saves,          \* window.electron.saveDatabase calls awaiting their result
  saveEvent       \* the last run of the save handler: what it did and showed

sessionVars == <<route, isLoaded, isConnected, electron>>
viewVars    == <<activeTab, selectedTable, loading, tableData, timers, loads, uiEvent>>
mutVars     == <<db, lastCall, mutResult>>
batchVars   == <<batch, bdb, btx, results>>
schemaVars  == <<svTables, schemaData, svNodes, svEdges, svLoading, hasLoaded,
                 reloads, nextReload, svEvent>>
layoutVars  == <<lyTables, lyPhase, lyIndex, lyStack, lyVisited, lyLevels, lyCalls,
                 lyNodes, lyEdges, lyRendered>>
netVars     == <<pgQueue, pgActive, pgCalls>>
refreshVars == <<refresh>>
saveVars    == <<file, filePath, lastSaved, saves, saveEvent>>
otherVars   == <<layoutVars, netVars, refreshVars>>
notLayoutVars == <<sessionVars, viewVars, mutVars, batchVars, schemaVars, netVars,
                   refreshVars, saveVars>>
notNetVars  == <<sessionVars, viewVars, mutVars, batchVars, schemaVars, layoutVars,
                 refreshVars, saveVars>>
vars        == <<sessionVars, viewVars, mutVars, batchVars, schemaVars, otherVars, saveVars>>

(***************************************************************************)
(* Bounds                                                                  *)
(***************************************************************************)
MaxTimers == 2
MaxIds == 2
MaxScript == 3
MaxReloads == 3
MaxFks == 3
MaxCalls == 2
MaxSaves == 2

(***************************************************************************)
(* Shared vocabulary                                                       *)
(***************************************************************************)
None == "none"

\* lastSaved before any save: useState<Date | null>(null); a save that succeeded
\* sets it to its own (positive) number.
NeverSaved == 0

\* Messages a backend attaches to a failure.
BackendMsgs == {"SQLITE_NOTADB: file is not a database"}

\* Tables listed in the sidebar (hooks' `tables` of the active source).
TableNames == {"users", "logs"}

Tabs == {"browse", "schema", "query"}

\* ---------------------------------------------------------------------------
\* DatabaseView: derived flags
\* ---------------------------------------------------------------------------
isPostgresActive == isConnected

\* (a flag that only looks at the embedded session)
SqliteActiveWheneverLoaded == isLoaded

isSqliteActive == isLoaded /\ ~isPostgresActive

databaseAvailable == isPostgresActive \/ isSqliteActive

EmptyTableData == [table |-> "", src |-> None]

NoEvent == [op |-> None, failure |-> None, toast |-> None, navigated |-> FALSE]

\* DatabaseView's state right after it mounts.
ViewMounted ==
  /\ activeTab = "browse"
  /\ selectedTable = ""
  /\ loading = FALSE
  /\ tableData = EmptyTableData
  /\ timers = <<>>

\* Unmounting DatabaseView: effect cleanups run (mounted = false), state is dropped;
\* callbacks of pending timers hit an unmounted component and do nothing.
UnmountView ==
  /\ activeTab' = "browse"
  /\ selectedTable' = ""
  /\ loading' = FALSE
  /\ tableData' = EmptyTableData
  /\ timers' = <<>>
  /\ loads' = {[l EXCEPT !.mounted = FALSE] : l \in loads}

\* ---------------------------------------------------------------------------
\* UploadView
\* ---------------------------------------------------------------------------
\* What reading the file and useDatabase().loadDatabase can do:
\*   readFail   readDatabase / file.arrayBuffer() fails (handler throws)
\*   loadThrow  loadDatabase rejects
\*   loadFalse  loadDatabase resolves to false
\*   ok         loadDatabase resolves to true, the embedded session is live
LoadOutcomes == {"readFail", "loadThrow", "loadFalse", "ok"}

\* useDatabase().loadDatabase: opening never retires another live session by itself.
LoadDatabase(out) ==
  /\ isLoaded' = (IF out = "ok" THEN TRUE ELSE isLoaded)
  /\ UNCHANGED <<isConnected, electron>>

\* processFile: { success: true } unless loadDatabase throws.
ProcessFile(out) == out # "loadThrow"

\* Body of the try block shared by handleDrop and the file-dialog callback.
OpenFile(op, out, msg) ==
  IF out = "readFail"
  THEN /\ uiEvent' = [op |-> op, failure |-> msg, toast |-> msg, navigated |-> FALSE]
       /\ UNCHANGED <<sessionVars, activeTab, selectedTable, loading, tableData,
                      timers, loads>>
  ELSE /\ LoadDatabase(out)
       /\ route' = (IF ProcessFile(out) THEN "/database" ELSE route)
       /\ uiEvent' = [op |-> op,
                      failure |-> (IF out = "ok" THEN None
                                   ELSE IF out = "loadThrow" THEN msg
                                   ELSE "loadDatabase returned false"),
                      toast |-> None,
                      navigated |-> ProcessFile(out)]
       /\ UNCHANGED <<activeTab, selectedTable, loading, tableData, timers, loads>>

HandleDrop(out, msg) ==
  /\ route = "/"
  /\ OpenFile("handleDrop", out, msg)
  /\ UNCHANGED <<mutVars, batchVars, schemaVars, otherVars, saveVars>>

HandleButtonClick(out, msg) ==
  /\ route = "/"
  /\ IF ~electron
     THEN /\ uiEvent' = [op |-> "handleButtonClick", failure |-> "no electron",
                         toast |-> "Electron API not available", navigated |-> FALSE]
          /\ UNCHANGED <<sessionVars, activeTab, selectedTable, loading, tableData,
                         timers, loads>>
     ELSE OpenFile("handleButtonClick", out, msg)
  /\ UNCHANGED <<mutVars, batchVars, schemaVars, otherVars, saveVars>>

\* PostgresConnectionForm connected (usePostgres().connect) and called
\* onConnectionSuccess = handlePostgresConnect.
HandlePostgresConnect ==
  /\ route = "/"
  /\ isConnected' = TRUE
  /\ route' = "/database"
  /\ uiEvent' = [op |-> "handlePostgresConnect", failure |-> None, toast |-> None,
                 navigated |-> TRUE]
  /\ UNCHANGED <<isLoaded, electron, activeTab, selectedTable, loading, tableData,
                 timers, loads, mutVars, batchVars, schemaVars, otherVars, saveVars>>

\* usePostgres().disconnect, as called from outside DatabaseView.
PgDisconnect ==
  /\ isConnected
  /\ isConnected' = FALSE
  /\ UNCHANGED <<route, isLoaded, electron, viewVars, mutVars, batchVars, schemaVars, otherVars, saveVars>>

\* ---------------------------------------------------------------------------
\* AppLayout / DatabaseView navigation
\* ---------------------------------------------------------------------------
\* AppLayout.mainNavItems 'back': navigate('/').
NavBack ==
  /\ route = "/database"
  /\ route' = "/"
  /\ UnmountView
  /\ lastSaved' = NeverSaved
  /\ UNCHANGED <<isLoaded, isConnected, electron, uiEvent, mutVars, batchVars, schemaVars, otherVars, file, filePath, saves, saveEvent>>

\* DatabaseView.handleBackClick; its button is rendered only on the
\* "No database loaded" page.
HandleBackClick ==
  /\ route = "/database"
  /\ ~databaseAvailable
  /\ isConnected' = (IF isPostgresActive THEN FALSE ELSE isConnected)
  /\ route' = "/"
  /\ UnmountView
  /\ lastSaved' = NeverSaved
  /\ UNCHANGED <<isLoaded, electron, uiEvent, mutVars, batchVars, schemaVars, otherVars, file, filePath, saves, saveEvent>>

TabChange(tab) ==
  /\ route = "/database"
  /\ databaseAvailable
  /\ activeTab # tab
  /\ activeTab' = tab
  /\ UNCHANGED <<sessionVars, selectedTable, loading, tableData, timers, loads, uiEvent,
                 mutVars, batchVars, schemaVars, otherVars, saveVars>>

\* ---------------------------------------------------------------------------
\* DatabaseView: table selection and the load effect
\* ---------------------------------------------------------------------------
TableSelect(tableName) ==
  IF tableName = selectedTable
  THEN UNCHANGED <<selectedTable, loading, tableData, timers>>
  ELSE /\ tableData' = EmptyTableData
       /\ loading' = TRUE
       /\ timers' = Append(timers, tableName)
       /\ UNCHANGED selectedTable

\* A click on a sidebar item.
HandleTableSelect(tableName) ==
  /\ route = "/database"
  /\ databaseAvailable
  /\ activeTab = "browse"
  /\ Len(timers) < MaxTimers
  /\ TableSelect(tableName)
  /\ UNCHANGED <<sessionVars, activeTab, loads, uiEvent, mutVars, batchVars, schemaVars, otherVars, saveVars>>

\* SchemaVisualizer's onEditTable prop.
OnEditTable(tableName) ==
  /\ route = "/database"
  /\ databaseAvailable
  /\ activeTab = "schema"
  /\ Len(timers) < MaxTimers
  /\ TableSelect(tableName)
  /\ activeTab' = "browse"
  /\ UNCHANGED <<sessionVars, loads, uiEvent, mutVars, batchVars, schemaVars, otherVars, saveVars>>

LoadFailedEvent(msg) ==
  [op |-> "loadTableData", failure |-> msg, toast |-> "Failed to load table data",
   navigated |-> FALSE]

\* A timer callback runs setSelectedTable(t); when the value changes the effect of
\* [selectedTable] runs: the previous effect is cleaned up and loadTableData starts.
\* The SQLite branch has no await: it runs to its finally block at once.
TimerFire(out, msg) ==
  /\ timers # <<>>
  /\ timers' = Tail(timers)
  /\ LET t == Head(timers) IN
     IF t = selectedTable
     THEN UNCHANGED <<selectedTable, loading, tableData, loads, uiEvent>>
     ELSE /\ selectedTable' = t
          /\ IF isPostgresActive
             THEN /\ out = "ok"
                  /\ loading' = TRUE
                  /\ loads' = {[l EXCEPT !.mounted = FALSE] : l \in loads}
                                \cup {[table |-> t, mounted |-> TRUE]}
                  /\ UNCHANGED <<tableData, uiEvent>>
             ELSE /\ loads' = {[l EXCEPT !.mounted = FALSE] : l \in loads}
                  /\ loading' = FALSE
                  /\ IF out = "ok" /\ isLoaded
                     THEN /\ tableData' = [table |-> t, src |-> "sqlite"]
                          /\ UNCHANGED uiEvent
                     ELSE /\ uiEvent' = LoadFailedEvent(msg)
                          /\ UNCHANGED tableData
  /\ UNCHANGED <<sessionVars, activeTab, mutVars, batchVars, schemaVars, otherVars, saveVars>>

\* Promise.all([getTableColumns, getTableData]) of a PostgreSQL load resolves.
LoadResolve(l) ==
  /\ l \in loads
  /\ loads' = loads \ {l}
  /\ IF l.mounted
     THEN /\ tableData' = [table |-> l.table, src |-> "pg"]
          /\ loading' = FALSE
     ELSE UNCHANGED <<tableData, loading>>
  /\ UNCHANGED <<sessionVars, activeTab, selectedTable, timers, uiEvent,
                 mutVars, batchVars, schemaVars, otherVars, saveVars>>

\* ... or rejects.
LoadReject(l, msg) ==
  /\ l \in loads
  /\ loads' = loads \ {l}
  /\ IF l.mounted
     THEN /\ uiEvent' = LoadFailedEvent(msg)
          /\ loading' = FALSE
     ELSE UNCHANGED <<uiEvent, loading>>
  /\ UNCHANGED <<sessionVars, activeTab, selectedTable, tableData, timers,
                 mutVars, batchVars, schemaVars, otherVars, saveVars>>

\* ---------------------------------------------------------------------------
\* Idle values of each machine
\* ---------------------------------------------------------------------------
IdleView ==
  /\ ViewMounted
  /\ loads = {}
  /\ uiEvent = NoEvent

IdleMut ==
  /\ db = <<>>
  /\ lastCall = None
  /\ mutResult = None

IdleBatch ==
  /\ batch = None
  /\ bdb = <<>>
  /\ btx = <<>>
  /\ results = <<>>

\* calculateLayout is not running.
IdleLayout ==
  /\ lyTables = <<>>
  /\ lyPhase = "idle"
  /\ lyIndex = 0
  /\ lyStack = <<>>
  /\ lyVisited = {}
  /\ lyLevels = <<>>
  /\ lyCalls = <<>>
  /\ lyNodes = <<>>
  /\ lyEdges = <<>>
  /\ lyRendered = <<>>

\* No statement was issued on the networked session.
IdleNet ==
  /\ pgQueue = <<>>
  /\ pgActive = {}
  /\ pgCalls = 0

IdleRefresh == refresh = "idle"

NoSaveEvent == [n |-> 0, pg |-> FALSE, exported |-> FALSE, null |-> FALSE, toast |-> None]

\* The save handler never ran; no file is known.
IdleSave ==
  /\ file = None
  /\ filePath = None
  /\ lastSaved = NeverSaved
  /\ saves = {}
  /\ saveEvent = NoSaveEvent

IdleOther == IdleLayout /\ IdleNet /\ IdleRefresh

NoSchemaEvent == [reload |-> 0, failure |-> None, toast |-> None]

IdleSchema ==
  /\ svTables = {}
  /\ schemaData = {}
  /\ svNodes = {}
  /\ svEdges = {}
  /\ svLoading = TRUE
  /\ hasLoaded = FALSE
  /\ reloads = {}
  /\ nextReload = 0
  /\ svEvent = NoSchemaEvent

(***************************************************************************)
(* Row mutation: DatabaseView.handleUpdateRow, dbService, pgService        *)
(***************************************************************************)
\* A string is a sequence of one-character strings, so that quoting and the
\* backend's reading of a quoted literal are computed, not assumed.
Range(f) == {f[i] : i \in DOMAIN f}

S1 == <<"1">>
S2 == <<"2">>
S3 == <<"3">>
Sa == <<"a">>
Sb == <<"b">>
Sc == <<"c">>
Sz == <<"z">>
SQuote == <<"'">>
SaQb == <<"a", "'", ",", "'", "b">>

Row(i, n) == [id |-> i, name |-> n]

BlankRow == Row(<<>>, <<>>)

\* Tables of the database under edit.  users: id INTEGER PRIMARY KEY;
\* tags: id TEXT PRIMARY KEY; logs: no key, rows may repeat.
MutTables == {"users", "tags", "logs"}

InitialDb ==
  [t \in MutTables |->
     CASE t = "users" -> <<Row(S1, Sa), Row(S2, Sb), Row(S3, Sc)>>
       [] t = "tags"  -> <<Row(Sa, Sa), Row(SaQb, Sb), Row(SQuote, Sc)>>
       [] t = "logs"  -> <<Row(S1, Sa), Row(S1, Sa)>>]

\* ---- the SQL text of the SQLite delete branch -----------------------------
\* `'${id}'`
QuoteId(id) == SQuote \o id \o SQuote

\* rowIds.map(id => `'${id}'`).join(',')
RECURSIVE JoinQuoted(_)
JoinQuoted(ids) ==
  IF ids = <<>> THEN <<>>
  ELSE IF Len(ids) = 1 THEN QuoteId(ids[1])
  ELSE QuoteId(ids[1]) \o <<",">> \o JoinQuoted(Tail(ids))

\* `DELETE FROM ${selectedTable} WHERE ${pk} IN (${...})`
DeleteSql(table, pkc, ids) ==
  <<"DELETE FROM ", table, " WHERE ", pkc, " IN (">> \o JoinQuoted(ids) \o <<")">>

\* ---- how the embedded engine reads the IN list ----------------------------
\* A literal opens with ', holds any characters, '' stands for one quote, and
\* closes with '; literals are separated by , and the list ends with ) at the
\* end of the statement.  Anything else is a syntax error.
RECURSIVE ParseInList(_, _, _, _, _)
ParseInList(s, i, st, cur, acc) ==
  IF i > Len(s)
  THEN [ok |-> st = "done", lits |-> acc]
  ELSE CASE st = "start" ->
              IF s[i] = "'" THEN ParseInList(s, i + 1, "lit", <<>>, acc)
              ELSE [ok |-> FALSE, lits |-> acc]
         [] st = "lit" ->
              IF s[i] # "'" THEN ParseInList(s, i + 1, "lit", Append(cur, s[i]), acc)
              ELSE IF i < Len(s) /\ s[i + 1] = "'"
                   THEN ParseInList(s, i + 2, "lit", Append(cur, "'"), acc)
                   ELSE ParseInList(s, i + 1, "after", <<>>, Append(acc, cur))
         [] st = "after" ->
              IF s[i] = "," THEN ParseInList(s, i + 1, "start", <<>>, acc)
              ELSE IF s[i] = ")" THEN ParseInList(s, i + 1, "done", <<>>, acc)
              ELSE [ok |-> FALSE, lits |-> acc]
         [] OTHER -> [ok |-> FALSE, lits |-> acc]

RemoveWhere(d, table, pkc, keys) ==
  [d EXCEPT ![table] = SelectSeq(@, LAMBDA r : r[pkc] \notin keys)]

\* dbService.executeBatchOperations([sql]) for a statement built by DeleteSql.
SqliteExecute(d, sql) ==
  LET parsed == ParseInList(SubSeq(sql, 6, Len(sql)), 1, "start", <<>>, <<>>) IN
  IF parsed.ok
  THEN [db |-> RemoveWhere(d, sql[2], sql[4], Range(parsed.lits)),
        success |-> TRUE, error |-> None]
  ELSE [db |-> d, success |-> FALSE, error |-> "SQLITE_ERROR: syntax error"]

\* pgService.deleteRows(table, primaryKeyColumn, rowIds): one DELETE with a
\* membership predicate, the identifiers bound as parameters.
PgDeleteRows(d, table, pkc, ids) ==
  [db |-> RemoveWhere(d, table, pkc, Range(ids)), ok |-> TRUE, kind |-> None, msg |-> None]

\* ---- updateRow of either service ------------------------------------------
Matching(d, table, before) == {i \in DOMAIN d[table] : d[table][i] = before}

\* update(table, before, after): full-row matching; NoSuchRow when nothing
\* matches, AmbiguousMatch when several rows match; before = after changes nothing.
ServiceUpdateRow(d, table, before, after) ==
  LET m == Matching(d, table, before) IN
  IF m = {}
  THEN [db |-> d, ok |-> FALSE, kind |-> "NoSuchRow", msg |-> "no row matches the snapshot"]
  ELSE IF Cardinality(m) > 1
  THEN [db |-> d, ok |-> FALSE, kind |-> "AmbiguousMatch",
        msg |-> "several rows match the snapshot"]
  ELSE [db |-> [d EXCEPT ![table] = [i \in DOMAIN @ |-> IF i \in m THEN after ELSE @[i]]],
        ok |-> TRUE, kind |-> None, msg |-> None]

\* ---- requests the table editor can make -----------------------------------
RowPool(t) ==
  Range(InitialDb[t]) \cup {[r EXCEPT !.name = Sz] : r \in Range(InitialDb[t])}

IdsOf(t) == {r.id : r \in Range(InitialDb[t])}

\* Non-empty lists of distinct identifiers, at most MaxIds long.
IdLists(t) ==
  {ids \in UNION {[1..n -> IdsOf(t)] : n \in 1..MaxIds} :
     \A i, j \in DOMAIN ids : i # j => ids[i] # ids[j]}

\* oldRow: <<>> stands for null.
OldRows(t) == {<<>>} \cup {<<r>> : r \in RowPool(t)}

RowRequest(r) == [type |-> "row", row |-> r, rowIds |-> <<>>, pkcIsString |-> FALSE]

DeleteRequest(ids, wellFormed) ==
  [type |-> "delete", row |-> BlankRow, rowIds |-> ids, pkcIsString |-> wellFormed]

\* What the editor sends with a given oldRow: an edit that leaves the row as it
\* is or sets its name to "z"; without a prior row, a bare row or a delete of
\* listed identifiers; and a delete object whose primaryKeyColumn is no string.
NewRows(t, oldRow) ==
  {RowRequest(r) : r \in {oldRow[i] : i \in DOMAIN oldRow}
                            \cup {[oldRow[i] EXCEPT !.name = Sz] : i \in DOMAIN oldRow}}
    \cup (IF oldRow = <<>>
          THEN {RowRequest(InitialDb[t][1])}
                 \cup {DeleteRequest(ids, TRUE) : ids \in IdLists(t)}
          ELSE {})
    \cup {DeleteRequest(ids, FALSE) : ids \in {ids \in IdLists(t) : Len(ids) = 1}}

PkColumn == "id"

\* ---- handleUpdateRow ------------------------------------------------------
isDeleteOperation(value) == value.type = "delete" /\ value.pkcIsString

NoCall == [service |-> None, op |-> None, table |-> "", sql |-> <<>>, params |-> <<>>]

\* The `return false` paths that reach no service.
ReturnFalse ==
  [db |-> db, call |-> NoCall, ret |-> "false", errKind |-> None, errMsg |-> None,
   toast |-> None, failure |-> None, failMsg |-> None]

UpdateWithSwapped(d, table, oldRow, newRow) ==
  IF newRow.type = "row"
  THEN ServiceUpdateRow(d, table, newRow.row, oldRow[1])
  ELSE [db |-> d, ok |-> FALSE, kind |-> "ExecutionError", msg |-> "no such column: type"]

\* What updateRow is handed when a request that is no RowData is cast to one:
\* the statement names columns the table does not have and the backend rejects it.
UpdateWith(d, table, oldRow, newRow) ==
  IF newRow.type = "row"
  THEN ServiceUpdateRow(d, table, oldRow[1], newRow.row)
  ELSE [db |-> d, ok |-> FALSE, kind |-> "ExecutionError", msg |-> "no such column: type"]

\* if (isPostgresActive) { try { ... } catch { toast; return false } }
PostgresBranch(oldRow, newRow) ==
  LET res == IF isDeleteOperation(newRow)
             THEN PgDeleteRows(db, selectedTable, PkColumn, newRow.rowIds)
             ELSE UpdateWith(db, selectedTable, oldRow, newRow)
      call == IF isDeleteOperation(newRow)
              THEN [service |-> "pg", op |-> "deleteRows", table |-> selectedTable,
                    sql |-> <<"DELETE FROM ", selectedTable, " WHERE ", PkColumn,
                              " = ANY($1)">>,
                    params |-> newRow.rowIds]
              ELSE [service |-> "pg", op |-> "updateRow", table |-> selectedTable,
                    sql |-> <<>>, params |-> <<>>]
  IN
  IF ~isDeleteOperation(newRow) /\ oldRow = <<>>
  THEN ReturnFalse
  ELSE [db |-> res.db, call |-> call,
        ret |-> IF res.ok THEN "true" ELSE "false",
        errKind |-> None, errMsg |-> None,
        toast |-> IF res.ok THEN None ELSE "Failed to update/delete PostgreSQL row(s)",
        failure |-> res.kind, failMsg |-> res.msg]

\* else { ... } : no try/catch; the delete builds its SQL text itself.
SqliteBranch(oldRow, newRow) ==
  IF isDeleteOperation(newRow)
  THEN LET sql == DeleteSql(selectedTable, PkColumn, newRow.rowIds)
           result == SqliteExecute(db, sql) IN
       [db |-> result.db,
        call |-> [service |-> "sqlite", op |-> "executeBatchOperations",
                  table |-> selectedTable, sql |-> sql, params |-> <<>>],
        ret |-> IF result.success THEN "true" ELSE "false",
        errKind |-> None, errMsg |-> None, toast |-> None,
        failure |-> IF result.success THEN None ELSE "ExecutionError",
        failMsg |-> result.error]
  ELSE IF oldRow # <<>>
  THEN LET res == UpdateWith(db, selectedTable, oldRow, newRow) IN
       [db |-> res.db,
        call |-> [service |-> "sqlite", op |-> "updateRow", table |-> selectedTable,
                  sql |-> <<>>, params |-> <<>>],
        ret |-> IF res.ok THEN "true" ELSE "throws",
        errKind |-> res.kind, errMsg |-> res.msg, toast |-> None,
        failure |-> res.kind, failMsg |-> res.msg]
  ELSE ReturnFalse

HandleUpdateRowOutcome(oldRow, newRow) ==
  IF selectedTable = "" THEN ReturnFalse
  ELSE IF isPostgresActive THEN PostgresBranch(oldRow, newRow)
  ELSE SqliteBranch(oldRow, newRow)

\* (a service that writes the file whenever it commits a mutation)
FlushOnCommit(onDisk, inMemory) == inMemory

\* What the file holds after dbService committed a mutation in memory.
FileAfterCommit(onDisk, inMemory) == onDisk

HandleUpdateRow(oldRow, newRow) ==
  /\ route = "/database"
  /\ databaseAvailable
  /\ LET out == HandleUpdateRowOutcome(oldRow, newRow) IN
     /\ db' = out.db
     /\ lastCall' = out.call
     /\ mutResult' =
          [op |-> IF newRow.type = "delete" THEN "delete" ELSE "update",
           prior |-> oldRow # <<>>,
           ids |-> newRow.rowIds,
           matched |-> IF oldRow = <<>> \/ selectedTable = "" THEN 0
                       ELSE Cardinality(Matching(db, selectedTable, oldRow[1])),
           changed |-> out.db # db,
           ret |-> out.ret, errKind |-> out.errKind, errMsg |-> out.errMsg,
           toast |-> out.toast, failure |-> out.failure, failMsg |-> out.failMsg]
     /\ file' = (IF isPostgresActive THEN file ELSE FileAfterCommit(file, out.db))
  /\ UNCHANGED <<sessionVars, viewVars, batchVars, schemaVars, otherVars,
                 filePath, lastSaved, saves, saveEvent>>

NoMutResult ==
  [op |-> None, prior |-> FALSE, ids |-> <<>>, matched |-> 0, changed |-> FALSE, ret |-> None,
   errKind |-> None, errMsg |-> None, toast |-> None, failure |-> None, failMsg |-> None]

\* SpecMut starts in DatabaseView with a session live and the table editor
\* (if any table is selected) showing that table.
InitMut ==
  /\ route = "/database"
  /\ isLoaded \in BOOLEAN
  /\ isConnected \in BOOLEAN
  /\ databaseAvailable
  /\ electron = TRUE
  /\ activeTab = "browse"
  /\ selectedTable \in MutTables \cup {""}
  /\ loading = FALSE
  /\ tableData = [table |-> selectedTable,
                  src |-> IF selectedTable = "" THEN None
                          ELSE IF isPostgresActive THEN "pg" ELSE "sqlite"]
  /\ timers = <<>>
  /\ loads = {}
  /\ uiEvent = NoEvent
  /\ db = InitialDb
  /\ lastCall = NoCall
  /\ mutResult = NoMutResult
  /\ IdleBatch
  /\ IdleSchema
  /\ IdleOther
  /\ IdleSave

\* The table whose rows the editor offers (any, when none is selected).
EditedTable == IF selectedTable = "" THEN "users" ELSE selectedTable

NextMut ==
  \E oldRow \in OldRows(EditedTable) :
     \E newRow \in NewRows(EditedTable, oldRow) : HandleUpdateRow(oldRow, newRow)

SpecMut == InitMut /\ [][NextMut]_vars

\* ---------------------------------------------------------------------------
\* Properties of the row mutation path (SpecMut)
\* ---------------------------------------------------------------------------
IsDeleteCall == lastCall.op \in {"deleteRows", "executeBatchOperations"}

\* id occurs in the SQL text, character by character.
OccursIn(id, sql) ==
  \E k \in 1..Len(sql) : k + Len(id) - 1 <= Len(sql) /\ SubSeq(sql, k, k + Len(id) - 1) = id

\* C4: every delete request reaches the backend with its row identifiers as
\* parameters; no identifier (bare or quoted as a text literal) is part of the
\* SQL text.
C4_DeleteIdsAreParameters ==
  IsDeleteCall =>
    /\ lastCall.params = mutResult.ids
    /\ \A id \in Range(mutResult.ids) : ~OccursIn(id, lastCall.sql)

\* C5: a delete request for the selected table and list L removes exactly the
\* rows whose primary-key value is in L and changes nothing else.
C5_DeleteRemovesExactlyListed ==
  [][(mutResult'.op = "delete" /\ lastCall'.op \in {"deleteRows", "executeBatchOperations"})
       => db' = RemoveWhere(db, selectedTable, PkColumn, Range(mutResult'.ids))]_vars

C7_MutationFailuresSurfaced ==
  mutResult.failure # None =>
    /\ mutResult.errKind = mutResult.failure
    /\ mutResult.errMsg = mutResult.failMsg

(***************************************************************************)
(* Batch execution engine: a script run with the "Use Transaction" toggle  *)
(***************************************************************************)
\* The database under a batch is a set of primary keys of one table.
Keys == {1, 2}

\* Statements of a script: INSERT of a key (fails on a duplicate key), DELETE of
\* a key (affects 0 or 1 rows), and a malformed statement (always rejected).
StmtPool ==
  {[op |-> "insert", k |-> k] : k \in Keys}
    \cup {[op |-> "delete", k |-> 1], [op |-> "malformed", k |-> 0]}

Scripts == UNION {[1..n -> StmtPool] : n \in 0..MaxScript}

\* The backend executing one statement on database d.
Exec(d, stmt) ==
  CASE stmt.op = "insert" ->
         IF stmt.k \in d
         THEN [ok |-> FALSE, db |-> d, rows |-> 0, error |-> "UNIQUE constraint failed"]
         ELSE [ok |-> TRUE, db |-> d \cup {stmt.k}, rows |-> 1, error |-> None]
    [] stmt.op = "delete" ->
         [ok |-> TRUE, db |-> d \ {stmt.k},
          rows |-> IF stmt.k \in d THEN 1 ELSE 0, error |-> None]
    [] OTHER -> [ok |-> FALSE, db |-> d, rows |-> 0, error |-> "syntax error"]

StatementResult(stmt, r) ==
  [statement |-> stmt, success |-> r.ok, error |-> r.error, rowsAffected |-> r.rows]

IdleBatchRecord ==
  [script |-> <<>>, atomic |-> FALSE, pos |-> 0, state |-> "Idle", startDb |-> {}]

\* execute(script, atomic): Idle -> Executing; atomic mode opens a transaction.
Execute(script, atomic) ==
  /\ batch.state = "Idle"
  /\ batch' = [script |-> script, atomic |-> atomic, pos |-> 1, state |-> "Executing",
               startDb |-> bdb]
  /\ btx' = bdb
  /\ results' = <<>>
  /\ UNCHANGED <<bdb, sessionVars, viewVars, mutVars, schemaVars, otherVars, saveVars>>

\* (a rollback that keeps what the transaction did so far)
RolledBackKeepsWork == btx

\* ROLLBACK: what the database holds after an atomic batch is aborted.
RolledBackDb == bdb

\* (a non-atomic batch that stops at the first failure)
AfterFailureStops(pos) == Len(batch.script) + 1

\* Where a non-atomic batch goes on after a statement failed at pos.
AfterFailure(pos) == pos + 1

\* One statement runs, in source order.
ExecuteStatement ==
  /\ batch.state = "Executing"
  /\ batch.pos <= Len(batch.script)
  /\ LET stmt == batch.script[batch.pos]
         r == Exec(IF batch.atomic THEN btx ELSE bdb, stmt) IN
     /\ results' = Append(results, StatementResult(stmt, r))
     /\ IF batch.atomic
        THEN IF r.ok
             THEN /\ btx' = r.db
                  /\ batch' = [batch EXCEPT !.pos = @ + 1]
                  /\ UNCHANGED bdb
             ELSE /\ bdb' = RolledBackDb
                  /\ btx' = RolledBackDb
                  /\ batch' = [batch EXCEPT !.state = "RolledBack"]
        ELSE /\ bdb' = r.db
             /\ btx' = r.db
             /\ batch' = [batch EXCEPT !.pos = IF r.ok THEN @ + 1 ELSE AfterFailure(@)]
  /\ UNCHANGED <<sessionVars, viewVars, mutVars, schemaVars, otherVars, saveVars>>

\* The script is exhausted: COMMIT (atomic) or report the outcome (non-atomic).
FinishBatch ==
  /\ batch.state = "Executing"
  /\ batch.pos > Len(batch.script)
  /\ IF batch.atomic
     THEN /\ bdb' = btx
          /\ batch' = [batch EXCEPT !.state = "Committed"]
     ELSE /\ UNCHANGED bdb
          /\ batch' = [batch EXCEPT !.state =
                         IF \E i \in DOMAIN results : ~results[i].success
                         THEN "PartiallyApplied" ELSE "Committed"]
  /\ UNCHANGED <<btx, results, sessionVars, viewVars, mutVars, schemaVars, otherVars, saveVars>>

\* {Committed | RolledBack | PartiallyApplied} -> Idle
BatchDone ==
  /\ batch.state \in {"Committed", "RolledBack", "PartiallyApplied"}
  /\ batch' = IdleBatchRecord
  /\ results' = <<>>
  /\ UNCHANGED <<bdb, btx, sessionVars, viewVars, mutVars, schemaVars, otherVars, saveVars>>

InitBatch ==
  /\ route = "/database"
  /\ isLoaded = TRUE
  /\ isConnected = FALSE
  /\ electron = TRUE
  /\ activeTab = "query"
  /\ selectedTable = ""
  /\ loading = FALSE
  /\ tableData = EmptyTableData
  /\ timers = <<>>
  /\ loads = {}
  /\ uiEvent = NoEvent
  /\ IdleMut
  /\ batch = IdleBatchRecord
  /\ bdb = {}
  /\ btx = {}
  /\ results = <<>>
  /\ IdleSchema
  /\ IdleOther
  /\ IdleSave

NextBatch ==
  \/ \E script \in Scripts, atomic \in BOOLEAN : Execute(script, atomic)
  \/ ExecuteStatement
  \/ FinishBatch
  \/ BatchDone

SpecBatch == InitBatch /\ [][NextBatch]_vars

\* ---- reference semantics, computed from the whole script ------------------
\* The database after running every statement, a failing one leaving it as it is.
RECURSIVE RunBestEffort(_, _)
RunBestEffort(d, script) ==
  IF script = <<>> THEN d
  ELSE RunBestEffort(Exec(d, Head(script)).db, Tail(script))

\* Whether statement i of the script succeeds when each statement before it ran.
SucceedsAt(d, script, i) ==
  Exec(RunBestEffort(d, SubSeq(script, 1, i - 1)), script[i]).ok

\* Position of the first failing statement, 0 when none fails.
FirstFailure(d, script) ==
  IF \E i \in DOMAIN script : ~SucceedsAt(d, script, i)
  THEN CHOOSE i \in DOMAIN script :
         /\ ~SucceedsAt(d, script, i)
         /\ \A j \in 1..(i - 1) : SucceedsAt(d, script, j)
  ELSE 0

\* C2: an atomic batch whose statement k fails runs nothing after k and leaves
\* the database as it was before the batch; with no failure all effects apply.
C2_AtomicBatchAllOrNothing ==
  batch.atomic =>
    /\ batch.state # "PartiallyApplied"
    /\ batch.state = "Executing" => bdb = batch.startDb
    /\ batch.state = "RolledBack" =>
         /\ bdb = batch.startDb
         /\ Len(results) = FirstFailure(batch.startDb, batch.script)
         /\ ~results[Len(results)].success
         /\ \A i \in 1..(Len(results) - 1) : results[i].success
    /\ batch.state = "Committed" =>
         /\ FirstFailure(batch.startDb, batch.script) = 0
         /\ bdb = RunBestEffort(batch.startDb, batch.script)
         /\ Len(results) = Len(batch.script)

\* A failure at position 2 of 3, after a statement that changed a row.
C2_Witness ==
  /\ batch.atomic
  /\ batch.state = "RolledBack"
  /\ Len(results) = 2
  /\ Len(batch.script) = 3
  /\ results[1].rowsAffected = 1
  /\ bdb = batch.startDb

\* C3: a non-atomic batch runs every statement in source order, commits each
\* one that succeeds, and reports failure exactly at the failing positions.
C3_NonAtomicBatchIndependent ==
  (~batch.atomic /\ batch.state \in {"Committed", "PartiallyApplied"}) =>
    /\ Len(results) = Len(batch.script)
    /\ \A i \in DOMAIN results :
         /\ results[i].statement = batch.script[i]
         /\ results[i].success = SucceedsAt(batch.startDb, batch.script, i)
    /\ bdb = RunBestEffort(batch.startDb, batch.script)
    /\ (batch.state = "PartiallyApplied") = (FirstFailure(batch.startDb, batch.script) # 0)

\* Statements 1 and 3 commit around a failing statement 2.
C3_Witness ==
  /\ ~batch.atomic
  /\ batch.state = "PartiallyApplied"
  /\ Len(results) = 3
  /\ results[1].success /\ results[1].rowsAffected = 1
  /\ ~results[2].success
  /\ results[3].success /\ results[3].rowsAffected = 1
  /\ bdb # batch.startDb

(***************************************************************************)
(* SchemaVisualizer: the schema load effect                                *)
(***************************************************************************)
\* Tables a backend can list, and which of them reference which.
SvNames == {"users", "orders", "items"}

ForeignKeys == {<<"orders", "users">>, <<"items", "orders">>}

\* A loadSchema() call is known by its number and the table list it closed over.
ReloadId(n, tables) == [n |-> n, tables |-> tables]

\* One SchemaTable as loaded by reload rid.
SchemaTable(t, rid) == [name |-> t, reload |-> rid]

\* (a load that publishes as soon as one table has answered)
SettledEarly(r) == r.replies # {}

\* const data = await Promise.all(schemaPromises): proceeds once every table of
\* the list has answered.
AllSettled(r) == r.replies = r.id.tables

\* data: the answers the promises of this load resolved to, in one array.
LoadedData(r) == {SchemaTable(t, r.id) : t \in r.replies}

\* calculateLayout, as far as identity goes: one node per table, one edge per
\* foreign key of a table of the list.
LayoutNodes(data) == {[id |-> d.name, reload |-> d.reload] : d \in data}

LayoutEdges(data) ==
  {[source |-> p[1].name, target |-> p[2][2], reload |-> p[1].reload] :
     p \in {q \in data \X ForeignKeys : q[2][1] = q[1].name}}

\* (a catch block that resets the snapshot)
SchemaClearedOnFailure == {}

\* catch (error) { console.error(...) }: what the failed load leaves in schemaData.
SchemaAfterFailure == schemaData

\* The effect of [tableKey]: previous cleanup (mounted = false), the skip guard,
\* then loadSchema() or setLoading(false).
RunLoadEffect(tables) ==
  LET cleaned == {[r EXCEPT !.mounted = FALSE] : r \in reloads} IN
  IF hasLoaded /\ Cardinality(schemaData) = Cardinality(tables)
  THEN /\ reloads' = cleaned
       /\ UNCHANGED <<svLoading, nextReload>>
  ELSE IF tables # {}
  THEN /\ reloads' = cleaned \cup {[id |-> ReloadId(nextReload + 1, tables),
                                    mounted |-> TRUE, replies |-> {}]}
       /\ nextReload' = nextReload + 1
       /\ svLoading' = TRUE
  ELSE /\ reloads' = cleaned
       /\ svLoading' = FALSE
       /\ UNCHANGED nextReload

\* The parent renders with another table list: tableKey changes, the effect runs.
TablesChange(tables) ==
  /\ tables # svTables
  /\ nextReload < MaxReloads
  /\ svTables' = tables
  /\ RunLoadEffect(tables)
  /\ UNCHANGED <<schemaData, svNodes, svEdges, hasLoaded, svEvent,
                 sessionVars, viewVars, mutVars, batchVars, otherVars, saveVars>>

\* The three introspection calls of table t of a load resolve.
TableResolved(r, t) ==
  /\ r \in reloads
  /\ t \in r.id.tables \ r.replies
  /\ LET r2 == [r EXCEPT !.replies = @ \cup {t}] IN
     IF ~AllSettled(r2)
     THEN /\ reloads' = (reloads \ {r}) \cup {r2}
          /\ UNCHANGED <<schemaData, svNodes, svEdges, hasLoaded, svLoading, svEvent>>
     ELSE /\ reloads' = reloads \ {r}
          /\ IF ~r.mounted
             THEN UNCHANGED <<schemaData, svNodes, svEdges, hasLoaded, svLoading, svEvent>>
             ELSE /\ schemaData' = LoadedData(r2)
                  /\ hasLoaded' = TRUE
                  /\ svNodes' = LayoutNodes(LoadedData(r2))
                  /\ svEdges' = LayoutEdges(LoadedData(r2))
                  /\ svLoading' = FALSE
                  /\ svEvent' = [reload |-> r.id.n, failure |-> None, toast |-> None]
  /\ UNCHANGED <<svTables, nextReload, sessionVars, viewVars, mutVars, batchVars, otherVars, saveVars>>

\* One introspection call of table t rejects: Promise.all rejects, the catch block
\* logs to the console, finally clears loading when still mounted.
TableRejected(r, t, msg) ==
  /\ r \in reloads
  /\ t \in r.id.tables \ r.replies
  /\ reloads' = reloads \ {r}
  /\ schemaData' = SchemaAfterFailure
  /\ svEvent' = [reload |-> r.id.n, failure |-> msg, toast |-> None]
  /\ svLoading' = (IF r.mounted THEN FALSE ELSE svLoading)
  /\ UNCHANGED <<svTables, svNodes, svEdges, hasLoaded, nextReload,
                 sessionVars, viewVars, mutVars, batchVars, otherVars, saveVars>>

\* The "auto layout" button.
HandleAutoLayout ==
  /\ svNodes' = LayoutNodes(schemaData)
  /\ svEdges' = LayoutEdges(schemaData)
  /\ UNCHANGED <<svTables, schemaData, svLoading, hasLoaded, reloads, nextReload, svEvent,
                 sessionVars, viewVars, mutVars, batchVars, otherVars, saveVars>>

\* SchemaVisualizer right after it mounted on the schema tab of a PostgreSQL
\* session (the backend whose introspection calls take time) and its first
\* effect ran for the table list it was given.
InitSchema ==
  /\ route = "/database"
  /\ isLoaded = FALSE
  /\ isConnected = TRUE
  /\ electron = TRUE
  /\ activeTab = "schema"
  /\ selectedTable = ""
  /\ loading = FALSE
  /\ tableData = EmptyTableData
  /\ timers = <<>>
  /\ loads = {}
  /\ uiEvent = NoEvent
  /\ IdleMut
  /\ IdleBatch
  /\ svTables \in SUBSET SvNames
  /\ schemaData = {}
  /\ svNodes = {}
  /\ svEdges = {}
  /\ hasLoaded = FALSE
  /\ svLoading = (svTables # {})
  /\ reloads = IF svTables = {} THEN {}
               ELSE {[id |-> ReloadId(1, svTables), mounted |-> TRUE, replies |-> {}]}
  /\ nextReload = Cardinality(reloads)
  /\ svEvent = NoSchemaEvent
  /\ IdleOther
  /\ IdleSave

NextSchema ==
  \/ \E tables \in SUBSET SvNames : TablesChange(tables)
  \/ \E r \in reloads : \E t \in r.id.tables : TableResolved(r, t)
  \/ \E r \in reloads : \E t \in r.id.tables, msg \in BackendMsgs : TableRejected(r, t, msg)
  \/ HandleAutoLayout

SpecSchema == InitSchema /\ [][NextSchema]_vars

\* C9: schemaData is empty or the complete data of one single loadSchema() call:
\* one entry for every table of that call's list, all loaded by that call.
C9_SnapshotNeverPartial ==
  \/ schemaData = {}
  \/ \E d \in schemaData :
       schemaData = {SchemaTable(t, d.reload) : t \in d.reload.tables}

\* The snapshot of a later load of two or more tables is shown while an
\* overlapped, stale load of another list is partly answered.
C9_Witness ==
  /\ \E d \in schemaData : d.reload.n >= 2 /\ Cardinality(d.reload.tables) >= 2
  /\ \E r \in reloads : ~r.mounted /\ r.replies # {}

\* C10: a load that fails leaves schemaData, the nodes and the edges as they were.
C10_FailedReloadKeepsSnapshot ==
  [][(svEvent'.reload # svEvent.reload /\ svEvent'.failure # None)
       => (schemaData' = schemaData /\ svNodes' = svNodes /\ svEdges' = svEdges)]_vars

\* A load failed after an earlier one had succeeded, whose snapshot is still there.
C10_Witness ==
  /\ svEvent.failure # None
  /\ hasLoaded
  /\ schemaData # {}
  /\ \A d \in schemaData : d.reload.n < svEvent.reload
  /\ svNodes = LayoutNodes(schemaData)
  /\ ~svLoading

\* C8 (schema load): a failed catalog load shows the user the backend's message.
C8_CatalogFailureSurfaced ==
  svEvent.failure # None => svEvent.toast = svEvent.failure

\* The tables schemaData describes.
SchemaNames(data) == {d.name : d \in data}

\* The schema tab while the backend answers every introspection call: a load
\* that was started gets all its answers.
NextSchemaLive ==
  \/ \E tables \in SUBSET SvNames : TablesChange(tables)
  \/ \E r \in reloads : \E t \in r.id.tables : TableResolved(r, t)
  \/ HandleAutoLayout

SpecSchemaLive ==
  /\ InitSchema
  /\ [][NextSchemaLive]_vars
  /\ WF_vars(\E r \in reloads : \E t \in r.id.tables : TableResolved(r, t))

\* C11: whatever list the visualizer is given, as long as the list stays
\* schemaData eventually describes exactly the tables of that list.
C11_TableListChangeReloads ==
  \A tables \in SUBSET SvNames :
    (svTables = tables) ~> (svTables # tables \/ SchemaNames(schemaData) = tables)

\* The schema tab while every introspection call that was issued settles:
\* each one eventually resolves or rejects.
SpecSchemaSettle ==
  /\ InitSchema
  /\ [][NextSchema]_vars
  /\ WF_vars(\/ \E r \in reloads : \E t \in r.id.tables : TableResolved(r, t)
             \/ \E r \in reloads : \E t \in r.id.tables, msg \in BackendMsgs :
                  TableRejected(r, t, msg))

\* C22: the loading flag of the visualizer does not stay set for ever: when the
\* introspection calls settle, loading eventually becomes false, also when the
\* table list changed again while a reload was in flight.
C22_LoadingEventuallyClears == svLoading ~> ~svLoading

(***************************************************************************)
(* calculateLayout: levels by calculateLevel, positions, nodes and edges   *)
(***************************************************************************)
\* Tables of a database, in the order the backend lists them.
LyNames == <<"a", "b", "c">>

\* Columns of every table: a composite primary key (id, k2), a plain column and
\* the columns foreign keys are declared on; pk is the ordinal within the
\* primary key (0: not part of it).
LyColumns ==
  <<[name |-> "id", pk |-> 1, notnull |-> 1], [name |-> "k2", pk |-> 2, notnull |-> 1],
    [name |-> "val", pk |-> 0, notnull |-> 0], [name |-> "r_id", pk |-> 0, notnull |-> 0],
    [name |-> "r_k2", pk |-> 0, notnull |-> 1]>>

\* Foreign keys a table can declare: to any table of the database, also to one
\* that is not in the list handed over, on either primary-key column.
FkPool(src) ==
  {[src |-> src, from |-> "r_" \o to, table |-> tgt, to |-> to] :
     tgt \in {LyNames[i] : i \in DOMAIN LyNames}, to \in {"id", "k2"}}

SchemaTableOf(name, fks) ==
  [name |-> name, columns |-> LyColumns,
   foreignKeys |-> {[from |-> fk.from, table |-> fk.table, to |-> fk.to] : fk \in fks},
   indexes |-> {}]

\* Inputs: the first n tables of the database with at most MaxFks foreign keys.
LayoutInputs ==
  UNION {
    LET pool == UNION {FkPool(LyNames[i]) : i \in 1..n} IN
    {[i \in 1..n |-> SchemaTableOf(LyNames[i], {fk \in fks : fk.src = LyNames[i]})] :
       fks \in {f \in SUBSET pool : Cardinality(f) <= MaxFks}}
    : n \in 0..Len(LyNames)}

ListedNames(tables) == {tables[i].name : i \in DOMAIN tables}

\* relationships.get(name): the referenced tables of a listed table, undefined
\* (no refs) for any other name.
Relationships(tables, name) ==
  IF name \in ListedNames(tables)
  THEN {fk.table : fk \in (CHOOSE t \in Range(tables) : t.name = name).foreignKeys}
  ELSE {}

\* levels.get(name) || 0
LevelOf(levels, name) == IF name \in DOMAIN levels THEN levels[name] ELSE 0

Max(a, b) == IF a >= b THEN a ELSE b

\* calculateLevel(name, level) past its visited check: mark, open a frame.
Frame(tables, name, level) ==
  [name |-> name, level |-> level, maxLevel |-> level,
   todo |-> Relationships(tables, name)]

\* (a traversal with no visited check)
VisitedNever(name) == FALSE

\* visited.has(name)
Visited(name) == name \in lyVisited

EnterLevel(name, level) ==
  IF Visited(name)
  THEN UNCHANGED <<lyStack, lyVisited, lyCalls>>
  ELSE /\ lyVisited' = lyVisited \cup {name}
       /\ lyStack' = Append(lyStack, Frame(lyTables, name, level))
       /\ lyCalls' = [lyCalls EXCEPT ![name] = @ + 1]

nodeWidth == 250
nodeHeight == 200
horizontalGap == 100
verticalGap == 80

\* Levels that occur among the listed tables (the keys of levelGroups).
LevelsUsed(tables, levels) == {LevelOf(levels, tables[i].name) : i \in DOMAIN tables}

\* Index of a level in sortedLevels (descending order).
LevelIndex(used, level) == Cardinality({k \in used : k > level})

\* levelGroups.get(level): the tables of a level in list order.
TablesInLevel(tables, levels, level) ==
  SelectSeq(tables, LAMBDA t : LevelOf(levels, t.name) = level)

\* (every table of a level placed at the start of its row)
NodeAtRowStart(table, levelIndex, tableIndex, count) ==
  [id |-> table.name,
   position |->
     [x |-> -((count * (nodeWidth + horizontalGap)) \div 2) + (nodeWidth \div 2),
      y |-> levelIndex * (nodeHeight + verticalGap)],
   data |-> [name |-> table.name, columns |-> table.columns,
             foreignKeys |-> table.foreignKeys, indexes |-> table.indexes]]

\* nodes.push({...}) for the table at tableIndex of a level of count tables.
NodeOf(table, levelIndex, tableIndex, count) ==
  [id |-> table.name,
   position |->
     [x |-> (-((count * (nodeWidth + horizontalGap)) \div 2) + (nodeWidth \div 2))
              + tableIndex * (nodeWidth + horizontalGap),
      y |-> levelIndex * (nodeHeight + verticalGap)],
   data |-> [name |-> table.name, columns |-> table.columns,
             foreignKeys |-> table.foreignKeys, indexes |-> table.indexes]]

\* sortedLevels.forEach from position levelIndex on.
RECURSIVE PositionLevels(_, _, _)
PositionLevels(tables, levels, levelIndex) ==
  LET used == LevelsUsed(tables, levels) IN
  IF levelIndex >= Cardinality(used) THEN <<>>
  ELSE LET level == CHOOSE k \in used : LevelIndex(used, k) = levelIndex
           group == TablesInLevel(tables, levels, level)
       IN  [j \in 1..Len(group) |-> NodeOf(group[j], levelIndex, j - 1, Len(group))]
             \o PositionLevels(tables, levels, levelIndex + 1)

\* edges.push({...}) for one foreign key of a table.
EdgeOf(table, fk) ==
  [id |-> <<table.name, fk.from, fk.table, fk.to>>,
   source |-> table.name,
   sourceHandle |-> <<table.name, fk.from, "source">>,
   target |-> fk.table,
   targetHandle |-> <<fk.table, fk.to, "target">>]

\* (one edge per referenced table instead of one per foreign key)
RECURSIVE EdgesPerTarget(_, _)
EdgesPerTarget(table, fks) ==
  IF fks = {} THEN <<>>
  ELSE LET fk == CHOOSE k \in fks : TRUE
       IN  <<EdgeOf(table, fk)>>
             \o EdgesPerTarget(table, {k \in fks : k.table # fk.table})

\* table.foreignKeys.forEach(fk => edges.push(...))
RECURSIVE EdgesOfTable(_, _)
EdgesOfTable(table, fks) ==
  IF fks = {} THEN <<>>
  ELSE LET fk == CHOOSE k \in fks : TRUE
       IN  <<EdgeOf(table, fk)>> \o EdgesOfTable(table, fks \ {fk})

\* tables.forEach(table => table.foreignKeys.forEach(...)) from position i on.
RECURSIVE CreateEdges(_, _)
CreateEdges(tables, i) ==
  IF i > Len(tables) THEN <<>>
  ELSE EdgesOfTable(tables[i], tables[i].foreignKeys) \o CreateEdges(tables, i + 1)

\* First loop: tables.forEach(table => size === 0 && calculateLevel(name, 0)).
LeavesLoop ==
  /\ lyPhase = "leaves"
  /\ lyStack = <<>>
  /\ IF lyIndex <= Len(lyTables)
     THEN /\ IF Relationships(lyTables, lyTables[lyIndex].name) = {}
             THEN EnterLevel(lyTables[lyIndex].name, 0)
             ELSE UNCHANGED <<lyStack, lyVisited, lyCalls>>
          /\ lyIndex' = lyIndex + 1
          /\ UNCHANGED lyPhase
     ELSE /\ lyPhase' = "rest"
          /\ lyIndex' = 1
          /\ UNCHANGED <<lyStack, lyVisited, lyCalls>>
  /\ UNCHANGED <<lyTables, lyLevels, lyNodes, lyEdges, lyRendered, notLayoutVars>>

\* Second loop: tables.forEach(table => !levels.has(name) && calculateLevel(name, 0)).
RestLoop ==
  /\ lyPhase = "rest"
  /\ lyStack = <<>>
  /\ lyIndex <= Len(lyTables)
  /\ IF lyTables[lyIndex].name \notin DOMAIN lyLevels
     THEN EnterLevel(lyTables[lyIndex].name, 0)
     ELSE UNCHANGED <<lyStack, lyVisited, lyCalls>>
  /\ lyIndex' = lyIndex + 1
  /\ UNCHANGED <<lyTables, lyPhase, lyLevels, lyNodes, lyEdges, lyRendered, notLayoutVars>>

\* refs.forEach(ref => ...): the running calculateLevel takes its next ref.
LevelVisitRef(ref) ==
  /\ lyStack # <<>>
  /\ LET top == lyStack[Len(lyStack)]
         rest == [top EXCEPT !.todo = @ \ {ref},
                             !.maxLevel = IF Visited(ref) THEN @
                                          ELSE Max(@, top.level)]
     IN  /\ ref \in top.todo
         /\ IF Visited(ref)
            THEN /\ lyStack' = [lyStack EXCEPT ![Len(lyStack)] = rest]
                 /\ UNCHANGED <<lyVisited, lyCalls>>
            ELSE /\ lyStack' = Append([lyStack EXCEPT ![Len(lyStack)] = rest],
                                      Frame(lyTables, ref, top.level + 1))
                 /\ lyVisited' = lyVisited \cup {ref}
                 /\ lyCalls' = [lyCalls EXCEPT ![ref] = @ + 1]
  /\ UNCHANGED <<lyTables, lyPhase, lyIndex, lyLevels, lyNodes, lyEdges, lyRendered, notLayoutVars>>

\* levels.set(tableName, maxLevel); return maxLevel.
LevelReturn ==
  /\ lyStack # <<>>
  /\ LET top == lyStack[Len(lyStack)] IN
     /\ top.todo = {}
     /\ lyLevels' = [n \in DOMAIN lyLevels \cup {top.name} |->
                       IF n = top.name THEN top.maxLevel ELSE lyLevels[n]]
     /\ lyStack' = SubSeq(lyStack, 1, Len(lyStack) - 1)
  /\ UNCHANGED <<lyTables, lyPhase, lyIndex, lyVisited, lyCalls, lyNodes, lyEdges, lyRendered, notLayoutVars>>

\* Grouping, positioning and edge creation; return { nodes, edges }.
LayoutReturn ==
  /\ lyPhase = "rest"
  /\ lyStack = <<>>
  /\ lyIndex > Len(lyTables)
  /\ lyNodes' = PositionLevels(lyTables, lyLevels, 0)
  /\ lyEdges' = CreateEdges(lyTables, 1)
  /\ lyPhase' = "done"
  /\ UNCHANGED <<lyTables, lyIndex, lyStack, lyVisited, lyLevels, lyCalls, lyRendered,
                 notLayoutVars>>

(***************************************************************************)
(* TableNode: what the visualizer renders for a node                       *)
(***************************************************************************)
\* getColumnIcon: const isPrimaryKey = column.pk === 1
isPrimaryKey(column) == column.pk = 1

\* TableNode: const isPk = column.pk === 1
isPk(column) == column.pk = 1

\* getColumnIcon(column, foreignKeys, indexes): the icons shown, left to right.
getColumnIcon(column, foreignKeys, indexes) ==
  LET isForeignKey == \E fk \in foreignKeys : fk.from = column.name
      isUnique == \E idx \in indexes :
                    idx.unique /\ idx.columns = <<column.name>>
  IN  IF isPrimaryKey(column)
      THEN IF isForeignKey THEN <<"Key", "Link2">> ELSE <<"Key">>
      ELSE IF isForeignKey THEN <<"Link2">>
      ELSE IF isUnique THEN <<"Hash">>
      ELSE IF column.notnull = 0 THEN <<"Diamond">>
      ELSE <<"Circle">>

\* One row of TableNode per column: its icons and its handles (<<>>: no handle).
TableNode(data) ==
  [i \in DOMAIN data.columns |->
     LET column == data.columns[i] IN
     [column |-> column,
      icons |-> getColumnIcon(column, data.foreignKeys, data.indexes),
      targetHandle |-> IF isPk(column) THEN <<data.name, column.name, "target">>
                       ELSE <<>>,
      sourceHandle |-> IF \E fk \in data.foreignKeys : fk.from = column.name
                       THEN <<data.name, column.name, "source">> ELSE <<>>]]

\* React Flow renders the returned nodes with TableNode.
RenderNodes ==
  /\ lyPhase = "done"
  /\ lyRendered' = [i \in DOMAIN lyNodes |-> TableNode(lyNodes[i].data)]
  /\ lyPhase' = "rendered"
  /\ UNCHANGED <<lyTables, lyIndex, lyStack, lyVisited, lyLevels, lyCalls, lyNodes, lyEdges,
                 notLayoutVars>>

\* calculateLayout(tables) was just called from the schema tab.
InitLayout ==
  /\ route = "/database"
  /\ isLoaded = TRUE
  /\ isConnected = FALSE
  /\ electron = TRUE
  /\ activeTab = "schema"
  /\ selectedTable = ""
  /\ loading = FALSE
  /\ tableData = EmptyTableData
  /\ timers = <<>>
  /\ loads = {}
  /\ uiEvent = NoEvent
  /\ IdleMut
  /\ IdleBatch
  /\ IdleSchema
  /\ IdleNet
  /\ IdleRefresh
  /\ IdleSave
  /\ lyTables \in LayoutInputs
  /\ lyPhase = "leaves"
  /\ lyIndex = 1
  /\ lyStack = <<>>
  /\ lyVisited = {}
  /\ lyLevels = <<>>
  /\ lyCalls = [n \in Range(LyNames) |-> 0]
  /\ lyNodes = <<>>
  /\ lyEdges = <<>>
  /\ lyRendered = <<>>

NextLayout ==
  \/ LeavesLoop
  \/ RestLoop
  \/ \E ref \in Range(LyNames) : LevelVisitRef(ref)
  \/ LevelReturn
  \/ LayoutReturn
  \/ RenderNodes

SpecLayout == InitLayout /\ [][NextLayout]_vars

\* The algorithm runs on; calculateLayout is synchronous code.
SpecLayoutLive == SpecLayout /\ WF_vars(NextLayout)

\* A table of the list references itself / two tables reference each other.
HasSelfReference(tables) ==
  \E n \in ListedNames(tables) : n \in Relationships(tables, n)

HasMutualReference(tables) ==
  \E n, k \in ListedNames(tables) :
    n # k /\ k \in Relationships(tables, n) /\ n \in Relationships(tables, k)

\* C12: calculateLayout terminates for every foreign-key graph; calculateLevel
\* processes each table at most once and its recursion is never deeper than the
\* number of tables handed over.
C12_LayoutTerminates ==
  /\ <>(lyPhase = "done")
  /\ [](\A n \in DOMAIN lyCalls : lyCalls[n] <= 1)
  /\ [](Len(lyStack) <= Len(lyTables))

\* C12 (amended): as above, the recursion being never deeper than the number of
\* tables handed over plus one (a referenced table that is not in the list is
\* visited too, as a leaf).
C12_LayoutTerminatesAmended ==
  /\ <>(lyPhase = "done")
  /\ [](\A n \in DOMAIN lyCalls : lyCalls[n] <= 1)
  /\ [](Len(lyStack) <= Len(lyTables) + 1)

\* A layout finished for a list with a self-referencing table and two tables
\* referencing each other, every table processed once.
C12_Witness ==
  /\ lyPhase = "done"
  /\ HasSelfReference(lyTables)
  /\ HasMutualReference(lyTables)
  /\ \A n \in ListedNames(lyTables) : lyCalls[n] = 1

\* Number of positions of a sequence that satisfy Test.
CountWhere(seq, Test(_)) == Cardinality({j \in DOMAIN seq : Test(seq[j])})

\* Number of foreign keys of all tables of the list.
ForeignKeyCount(tables) ==
  Cardinality({p \in (DOMAIN tables) \X UNION {tables[k].foreignKeys : k \in DOMAIN tables} :
                 p[2] \in tables[p[1]].foreignKeys})

\* C13: the returned layout has exactly one node per table, carrying the table's
\* columns, foreign keys and indexes, and exactly one edge per foreign key, from
\* the referencing table to the referenced one; nothing else is returned.
C13_OneNodePerTableOneEdgePerFk ==
  lyPhase = "done" =>
    /\ Len(lyNodes) = Len(lyTables)
    /\ \A i \in DOMAIN lyTables :
         CountWhere(lyNodes, LAMBDA n :
           /\ n.id = lyTables[i].name
           /\ n.data.name = lyTables[i].name
           /\ n.data.columns = lyTables[i].columns
           /\ n.data.foreignKeys = lyTables[i].foreignKeys
           /\ n.data.indexes = lyTables[i].indexes) = 1
    /\ Len(lyEdges) = ForeignKeyCount(lyTables)
    /\ \A i \in DOMAIN lyTables : \A fk \in lyTables[i].foreignKeys :
         CountWhere(lyEdges, LAMBDA e :
           /\ e.source = lyTables[i].name
           /\ e.target = fk.table
           /\ e.sourceHandle = <<lyTables[i].name, fk.from, "source">>
           /\ e.targetHandle = <<fk.table, fk.to, "target">>) = 1

\* A layout was returned for tables in a cycle, one of which has two foreign
\* keys that reference the same table.
C13_Witness ==
  /\ lyPhase = "done"
  /\ HasMutualReference(lyTables)
  /\ \E i \in DOMAIN lyTables : \E f, g \in lyTables[i].foreignKeys :
       f # g /\ f.table = g.table
  /\ Len(lyEdges) = 3

\* C24: every edge of a returned layout connects two nodes of that layout and
\* two handles that exist: its source and target are ids of returned nodes, its
\* sourceHandle is rendered on a column of the source table and its
\* targetHandle is rendered on a column of the target table.
C24_EdgesConnectExistingHandles ==
  lyPhase = "rendered" =>
    \A k \in DOMAIN lyEdges :
      LET e == lyEdges[k] IN
      /\ \E i \in DOMAIN lyNodes :
           /\ lyNodes[i].id = e.source
           /\ \E j \in DOMAIN lyRendered[i] : lyRendered[i][j].sourceHandle = e.sourceHandle
      /\ \E i \in DOMAIN lyNodes :
           /\ lyNodes[i].id = e.target
           /\ \E j \in DOMAIN lyRendered[i] : lyRendered[i][j].targetHandle = e.targetHandle

\* Table to is reached from table from over at most k foreign keys.
RECURSIVE Reaches(_, _, _, _)
Reaches(tables, from, to, k) ==
  /\ k > 0
  /\ \/ to \in Relationships(tables, from)
     \/ \E via \in Relationships(tables, from) : Reaches(tables, via, to, k - 1)

\* The foreign keys of the list form no cycle.
Acyclic(tables) ==
  \A n \in ListedNames(tables) : ~Reaches(tables, n, n, Len(tables))

\* C25: for an acyclic foreign-key graph a table that references another table
\* of the list gets a level different from the level of the referenced table.
C25_ReferencingLevelDiffers ==
  (lyPhase = "done" /\ Acyclic(lyTables)) =>
    \A n \in ListedNames(lyTables) :
      \A ref \in Relationships(lyTables, n) \cap ListedNames(lyTables) :
        LevelOf(lyLevels, n) # LevelOf(lyLevels, ref)

\* The nodes of the tables that got the same level as node n.
RowOf(n) ==
  {k \in Range(lyNodes) : LevelOf(lyLevels, k.id) = LevelOf(lyLevels, n.id)}

\* C26: no two nodes of a returned layout have the same position: the tables of
\* one level share y and their x are pairwise distinct, one step of
\* nodeWidth + horizontalGap apart from the first on; tables of different levels
\* have different y.
C26_PositionsDistinct ==
  lyPhase = "done" =>
    /\ \A i, j \in DOMAIN lyNodes :
         i # j => lyNodes[i].position # lyNodes[j].position
    /\ \A n \in Range(lyNodes) :
         LET row == RowOf(n)
             first == CHOOSE k \in row : \A o \in row : k.position.x <= o.position.x
         IN  /\ \A k \in row : k.position.y = n.position.y
             /\ {k.position.x : k \in row}
                  = {first.position.x + c * (nodeWidth + horizontalGap) :
                       c \in 0..(Cardinality(row) - 1)}
             /\ Cardinality({k.position.x : k \in row}) = Cardinality(row)
    /\ \A n, k \in Range(lyNodes) :
         LevelOf(lyLevels, n.id) # LevelOf(lyLevels, k.id)
           => n.position.y # k.position.y

\* A layout with two rows, one of them with two tables, was returned.
C26_Witness ==
  /\ lyPhase = "done"
  /\ Len(lyNodes) = 3
  /\ \E n, k \in Range(lyNodes) : n # k /\ n.position.y = k.position.y
  /\ \E n, k \in Range(lyNodes) : n.position.y # k.position.y

(***************************************************************************)
(* The networked session: statements issued by the loads of DatabaseView   *)
(* and SchemaVisualizer                                                    *)
(***************************************************************************)
Statement(call, table, kind) == [call |-> call, table |-> table, kind |-> kind]

\* loadTableData, PostgreSQL branch: Promise.all([getPostgresTableColumns(t),
\* getPostgresTableData(t)]) issues both queries before awaiting either.
TableLoadStatements(call, table) ==
  <<Statement(call, table, "columns"), Statement(call, table, "rows")>>

\* loadSchema: tables.map(async table => Promise.all([columns, foreignKeys,
\* indexes])) issues three queries per table before awaiting any.
RECURSIVE SchemaLoadStatements(_, _)
SchemaLoadStatements(call, tables) ==
  IF tables = <<>> THEN <<>>
  ELSE <<Statement(call, Head(tables), "columns"),
         Statement(call, Head(tables), "foreignKeys"),
         Statement(call, Head(tables), "indexes")>>
         \o SchemaLoadStatements(call, Tail(tables))

\* (a connection that starts a statement whatever else is running)
ConnectionAlwaysFree == TRUE

\* The session starts a statement only when none is outstanding.
ConnectionFree == pgActive = {}

\* What the session does with a statement issued while it is busy or has
\* statements waiting: it queues it, or it rejects it.
RECURSIVE Submit(_, _, _)
Submit(queue, stmts, policy) ==
  IF stmts = <<>> THEN queue
  ELSE IF policy = "reject" /\ (pgActive # {} \/ queue # <<>>)
  THEN Submit(queue, Tail(stmts), policy)
  ELSE Submit(Append(queue, Head(stmts)), Tail(stmts), policy)

Issue(stmts, policy) ==
  /\ pgCalls < MaxCalls
  /\ pgCalls' = pgCalls + 1
  /\ pgQueue' = Submit(pgQueue, stmts, policy)
  /\ UNCHANGED <<pgActive, notNetVars>>

LoadTableDataPg(table, policy) ==
  Issue(TableLoadStatements(pgCalls + 1, table), policy)

LoadSchemaPg(tables, policy) ==
  Issue(SchemaLoadStatements(pgCalls + 1, tables), policy)

SessionStart ==
  /\ pgQueue # <<>>
  /\ ConnectionFree
  /\ pgActive' = pgActive \cup {Head(pgQueue)}
  /\ pgQueue' = Tail(pgQueue)
  /\ UNCHANGED <<pgCalls, notNetVars>>

SessionFinish(stmt) ==
  /\ stmt \in pgActive
  /\ pgActive' = pgActive \ {stmt}
  /\ UNCHANGED <<pgQueue, pgCalls, notNetVars>>

\* DatabaseView on a PostgreSQL session, nothing issued yet.
InitNet ==
  /\ route = "/database"
  /\ isLoaded = FALSE
  /\ isConnected = TRUE
  /\ electron = TRUE
  /\ IdleView
  /\ IdleMut
  /\ IdleBatch
  /\ IdleSchema
  /\ IdleLayout
  /\ IdleRefresh
  /\ IdleSave
  /\ IdleNet

NextNet ==
  \/ \E t \in TableNames, policy \in {"queue", "reject"} : LoadTableDataPg(t, policy)
  \/ \E tables \in {<<"users">>, <<"users", "logs">>}, policy \in {"queue", "reject"} :
       LoadSchemaPg(tables, policy)
  \/ SessionStart
  \/ \E stmt \in pgActive : SessionFinish(stmt)

SpecNet == InitNet /\ [][NextNet]_vars

\* C14: at most one statement runs on the connection of the networked session.
C14_OneStatementInFlight == Cardinality(pgActive) <= 1

\* One query of a Promise.all is running while its sibling, issued at the same
\* time, waits in the queue.
C14_Witness ==
  /\ Cardinality(pgActive) = 1
  /\ \E s \in pgActive : \E i \in DOMAIN pgQueue :
       pgQueue[i].call = s.call /\ pgQueue[i].table = s.table

(***************************************************************************)
(* Table-list refresh next to a running batch (PostgreSQL session)         *)
(***************************************************************************)
\* handleRefresh: calls the active hook's refreshTables at once, then toasts.
\* On the PostgreSQL session the catalog queries are then out until they answer.
HandleRefresh ==
  /\ route = "/database"
  /\ databaseAvailable
  /\ refresh' = (IF isPostgresActive THEN "running" ELSE refresh)
  /\ uiEvent' = [op |-> "handleRefresh", failure |-> None, toast |-> "Refreshed",
                 navigated |-> FALSE]
  /\ UNCHANGED <<sessionVars, activeTab, selectedTable, loading, tableData, timers, loads,
                 mutVars, batchVars, schemaVars, layoutVars, netVars, saveVars>>

\* SqlEditor calls its refreshTables prop once its script is through.
RefreshAfterScript ==
  /\ batch.state \in {"Committed", "RolledBack", "PartiallyApplied"}
  /\ refresh = "idle"
  /\ refresh' = (IF isPostgresActive THEN "running" ELSE refresh)
  /\ batch' = IdleBatchRecord
  /\ results' = <<>>
  /\ UNCHANGED <<bdb, btx, sessionVars, viewVars, mutVars, schemaVars, layoutVars, netVars, saveVars>>

\* The catalog queries of a refresh answered.
RefreshDone ==
  /\ refresh = "running"
  /\ refresh' = "idle"
  /\ UNCHANGED <<sessionVars, viewVars, mutVars, batchVars, schemaVars, layoutVars, netVars, saveVars>>

\* The query tab of a PostgreSQL session, engine idle, no refresh running.
InitRefresh ==
  /\ route = "/database"
  /\ isLoaded = FALSE
  /\ isConnected = TRUE
  /\ electron = TRUE
  /\ activeTab = "query"
  /\ selectedTable = ""
  /\ loading = FALSE
  /\ tableData = EmptyTableData
  /\ timers = <<>>
  /\ loads = {}
  /\ uiEvent = NoEvent
  /\ IdleMut
  /\ batch = IdleBatchRecord
  /\ bdb = {}
  /\ btx = {}
  /\ results = <<>>
  /\ IdleSchema
  /\ IdleLayout
  /\ IdleNet
  /\ IdleRefresh
  /\ IdleSave

NextRefresh ==
  \/ \E script \in Scripts, atomic \in BOOLEAN : Execute(script, atomic)
  \/ ExecuteStatement
  \/ FinishBatch
  \/ BatchDone
  \/ HandleRefresh
  \/ RefreshAfterScript
  \/ RefreshDone

SpecRefresh == InitRefresh /\ [][NextRefresh]_vars

\* C15: no table-list refresh runs while a batch is in flight on the session.
C15_NoRefreshDuringBatch ==
  ~(refresh = "running" /\ batch.state = "Executing")

(***************************************************************************)
(* DatabaseView.handleSaveDatabase and the handlers around it              *)
(***************************************************************************)
\* dbService.exportDatabase(): the bytes of the in-memory database, or null when
\* there is nothing to export.
ExportDatabase(out) ==
  IF out = "data" THEN [null |-> FALSE, bytes |-> db] ELSE [null |-> TRUE, bytes |-> <<>>]

\* (a handler that goes on with whatever the export gave)
AlwaysSomethingToSave(data) == FALSE

\* if (!data)
NothingToSave(data) == data.null

\* (a handler that does not look at the active backend)
SaveNeverSkips == FALSE

\* if (isPostgresActive) { toast(...); return; }
SaveSkipsPostgres == isPostgresActive

SaveOutcome(n, pg, exported, null, toast) ==
  [n |-> n, pg |-> pg, exported |-> exported, null |-> null, toast |-> toast]

\* handleSaveDatabase up to its await (or to the return it takes before).
HandleSaveDatabase(out) ==
  /\ route = "/database"
  /\ databaseAvailable
  /\ saveEvent.n < MaxSaves
  /\ LET n == saveEvent.n + 1
         data == ExportDatabase(out) IN
     IF SaveSkipsPostgres
     THEN /\ saveEvent' = SaveOutcome(n, TRUE, FALSE, FALSE,
                 "PostgreSQL databases are saved on the server automatically")
          /\ UNCHANGED saves
     ELSE IF NothingToSave(data)
     THEN /\ saveEvent' = SaveOutcome(n, isPostgresActive, TRUE, data.null,
                                     "No database changes to save")
          /\ UNCHANGED saves
     ELSE IF filePath = None \/ ~electron
     THEN /\ saveEvent' = SaveOutcome(n, isPostgresActive, TRUE, data.null,
                 "No database file loaded. Please load a database file first.")
          /\ UNCHANGED saves
     ELSE /\ saveEvent' = SaveOutcome(n, isPostgresActive, TRUE, data.null, None)
          /\ saves' = saves \cup {[n |-> n, path |-> filePath, data |-> data]}
  /\ UNCHANGED <<file, filePath, lastSaved, sessionVars, viewVars, mutVars, batchVars,
                 schemaVars, otherVars>>

\* (a handler that takes every answer of the bridge for a success)
AnyAnswerIsSuccess(result) == TRUE

\* if (result.success), inside the try block: not reached when the call throws.
ReportedSuccess(result) == result = "success"

\* window.electron.saveDatabase(path, data) settles: it wrote the file and
\* reports success, reports an error, or throws.
SaveSettled(s, result) ==
  /\ s \in saves
  /\ saves' = saves \ {s}
  /\ file' = (IF result = "success" THEN s.data.bytes ELSE file)
  /\ lastSaved' = (IF ReportedSuccess(result) /\ route = "/database" THEN s.n
                   ELSE lastSaved)
  /\ saveEvent' = [saveEvent EXCEPT !.toast =
                     IF ReportedSuccess(result) THEN "Database saved successfully"
                     ELSE "Failed to save database"]
  /\ UNCHANGED <<filePath, sessionVars, viewVars, mutVars, batchVars, schemaVars, otherVars>>

\* The edits the table editor sends in this machine: rename the first row of
\* users, delete it.
SaveEdits ==
  {<<(<<InitialDb["users"][1]>>), RowRequest([InitialDb["users"][1] EXCEPT !.name = Sz])>>,
   <<(<<>>), DeleteRequest(<<InitialDb["users"][1].id>>, TRUE)>>}

\* DatabaseView showing table users of a file (or of a PostgreSQL session),
\* nothing saved yet.
InitSave ==
  /\ route = "/database"
  /\ isLoaded \in BOOLEAN
  /\ isConnected \in BOOLEAN
  /\ databaseAvailable
  /\ electron \in BOOLEAN
  /\ activeTab = "browse"
  /\ selectedTable = "users"
  /\ loading = FALSE
  /\ tableData = [table |-> "users", src |-> IF isPostgresActive THEN "pg" ELSE "sqlite"]
  /\ timers = <<>>
  /\ loads = {}
  /\ uiEvent = NoEvent
  /\ db = InitialDb
  /\ lastCall = NoCall
  /\ mutResult = NoMutResult
  /\ IdleBatch
  /\ IdleSchema
  /\ IdleOther
  /\ file = InitialDb
  /\ filePath \in {None, "/data/app.db"}
  /\ lastSaved = NeverSaved
  /\ saves = {}
  /\ saveEvent = NoSaveEvent

NextSave ==
  \/ \E out \in {"data", "nothing"} : HandleSaveDatabase(out)
  \/ \E s \in saves, result \in {"success", "failure", "throw"} : SaveSettled(s, result)
  \/ \E e \in SaveEdits : HandleUpdateRow(e[1], e[2])
  \/ \E t \in TableNames : HandleTableSelect(t)
  \/ HandleRefresh
  \/ NavBack

SpecSave == InitSave /\ [][NextSave]_vars

\* C16: the file changes only when a saveDatabase call started by the save
\* handler completes, and then to the bytes that call was given; no other
\* handler (row update, row delete, table selection, refresh, navigation)
\* changes it.
C16_FileWrittenOnlyBySave ==
  [][file' # file =>
       \E s \in saves : saves' = saves \ {s} /\ file' = s.data.bytes]_vars

\* A row mutation changed the in-memory database of an embedded session and the
\* file still holds what was loaded.
C16_Witness ==
  /\ isSqliteActive
  /\ mutResult # NoMutResult
  /\ mutResult.changed
  /\ db # InitialDb
  /\ file = InitialDb

\* C17: a run of the save handler whose export gave nothing shows "No database
\* changes to save", starts no file write and leaves the file and lastSaved
\* as they were.
C17_NothingToSaveIsSignalled ==
  [][(saveEvent'.n # saveEvent.n /\ saveEvent'.exported /\ saveEvent'.null)
       => /\ saveEvent'.toast = "No database changes to save"
          /\ saves' = saves
          /\ file' = file
          /\ lastSaved' = lastSaved]_vars

\* After a successful save, a later run found nothing to export: lastSaved is
\* still the time of the first one.
C17_Witness ==
  /\ saveEvent.null
  /\ saveEvent.toast = "No database changes to save"
  /\ lastSaved # NeverSaved
  /\ lastSaved < saveEvent.n
  /\ saves = {}

\* C18: a run of the save handler while the PostgreSQL session is active exports
\* nothing, starts no file write and leaves the file and lastSaved as they were.
C18_PostgresSaveIsNoOp ==
  [][(saveEvent'.n # saveEvent.n /\ isPostgresActive)
       => /\ ~saveEvent'.exported
          /\ saves' = saves
          /\ file' = file
          /\ lastSaved' = lastSaved]_vars

\* The save handler ran with both sessions live (a file loaded next to the
\* PostgreSQL connection) and a file path and the bridge at hand.
C18_Witness ==
  /\ saveEvent.n >= 1
  /\ saveEvent.pg
  /\ isLoaded
  /\ isConnected
  /\ filePath # None
  /\ electron

\* C28: lastSaved is set only by a file write that reported success: a step
\* that gives lastSaved a new time completes a saveDatabase call for the current
\* file path that wrote its bytes; a step that reports a failed or throwing
\* write, a missing file path or a missing bridge leaves lastSaved as it was;
\* and in every state a lastSaved that is set comes from a run of the handler
\* that had the file path and the bridge. (Leaving the view discards the
\* component state: lastSaved is back to its initial null.)
C28_LastSavedOnlyAfterSuccess ==
  /\ [](lastSaved # NeverSaved =>
          /\ filePath # None
          /\ electron
          /\ lastSaved <= saveEvent.n)
  /\ [][/\ (lastSaved' # lastSaved /\ lastSaved' # NeverSaved) =>
             \E s \in saves : /\ saves' = saves \ {s}
                              /\ s.path = filePath
                              /\ file' = s.data.bytes
                              /\ lastSaved' = s.n
        /\ (/\ saveEvent' # saveEvent
            /\ saveEvent'.toast \in
                 {"Failed to save database",
                  "No database file loaded. Please load a database file first."})
             => lastSaved' = lastSaved]_vars

\* After a successful save the database was edited and the next write failed:
\* the file and lastSaved are those of the first save.
C28_Witness ==
  /\ lastSaved # NeverSaved
  /\ lastSaved < saveEvent.n
  /\ saveEvent.toast = "Failed to save database"
  /\ saves = {}
  /\ file # db

\* {isSqliteActive && (<Button onClick={handleSaveDatabase}> Save </Button>)}
\* in the header of the view that is rendered when a database is available.
SaveButtonShown == route = "/database" /\ databaseAvailable /\ isSqliteActive

\* C29: the two activity flags are never both true, a database is available
\* exactly when one of them is, the save button is shown only when the SQLite
\* flag is the one that is true (a file loaded, no PostgreSQL session), and only
\* then does a run of the save handler start a file write.
C29_ActivityFlagsExclusive ==
  /\ [](/\ ~(isPostgresActive /\ isSqliteActive)
        /\ databaseAvailable <=> (isPostgresActive # isSqliteActive)
        /\ SaveButtonShown => (isLoaded /\ ~isConnected)
        /\ saves # {} => (isSqliteActive /\ ~isPostgresActive))
  /\ [][(saves' \ saves) # {} => (isSqliteActive /\ isLoaded /\ ~isConnected)]_vars

\* Both sessions are live: the PostgreSQL flag alone is true, the save button is
\* hidden and a run of the save handler (the editor's autosave) wrote nothing.
C29_Witness ==
  /\ isLoaded
  /\ isConnected
  /\ isPostgresActive
  /\ ~isSqliteActive
  /\ ~SaveButtonShown
  /\ saveEvent.n >= 1
  /\ saves = {}
  /\ lastSaved = NeverSaved

(***************************************************************************)
(* Spec: the application from start-up (App.tsx routes "/" to UploadView)  *)
(***************************************************************************)
Init ==
  /\ route = "/"
  /\ isLoaded = FALSE
  /\ isConnected = FALSE
  /\ electron \in BOOLEAN
  /\ IdleView
  /\ IdleMut
  /\ IdleBatch
  /\ IdleSchema
  /\ IdleOther
  /\ IdleSave

Next ==
  \/ \E out \in LoadOutcomes, msg \in BackendMsgs : HandleDrop(out, msg)
  \/ \E out \in LoadOutcomes, msg \in BackendMsgs : HandleButtonClick(out, msg)
  \/ HandlePostgresConnect
  \/ PgDisconnect
  \/ NavBack
  \/ HandleBackClick
  \/ \E tab \in Tabs : TabChange(tab)
  \/ \E t \in TableNames : HandleTableSelect(t)
  \/ \E t \in TableNames : OnEditTable(t)
  \/ \E out \in {"ok", "throw"}, msg \in BackendMsgs : TimerFire(out, msg)
  \/ \E l \in loads : LoadResolve(l)
  \/ \E l \in loads, msg \in BackendMsgs : LoadReject(l, msg)

Spec == Init /\ [][Next]_vars

\* C1: the embedded session and the networked session are never live together.
C1_AtMostOneSessionLive == ~(isLoaded /\ isConnected)

\* C23: whenever the table editor is shown (a table is selected, loading is
\* false) with a non-empty result, that result was loaded for the table that
\* is selected now.
C23_ShownDataIsOfSelectedTable ==
  (/\ route = "/database"
   /\ selectedTable # ""
   /\ ~loading
   /\ tableData # EmptyTableData)
    => tableData.table = selectedTable

\* C27: a call of handleUpdateRow reaches at most one service, the one of the
\* active backend, and none when no table is selected or when the request is
\* no delete and comes without a prior row; a delete request, well formed or
\* not, is never dispatched as a row update.
C27_OneMutationRightKind ==
  mutResult.op # None =>
    /\ lastCall.service \in {None, IF isPostgresActive THEN "pg" ELSE "sqlite"}
    /\ selectedTable = "" => lastCall = NoCall
    /\ (mutResult.op = "update" /\ ~mutResult.prior) => lastCall = NoCall
    /\ mutResult.op = "delete" => lastCall.op # "updateRow"

\* C19: a drop or a file selection whose load did not succeed (the read failed,
\* loadDatabase threw, or loadDatabase reported failure) does not navigate to
\* the database view.
C19_NoNavigationWithoutSession ==
  (uiEvent.op \in {"handleDrop", "handleButtonClick"} /\ uiEvent.failure # None)
    => ~uiEvent.navigated

\* C20: every column that is part of a primary key, whatever its ordinal in a
\* composite key, is rendered with the key icon and with a target handle.
C20_PrimaryKeyColumnsMarked ==
  lyPhase = "rendered" =>
    \A i \in DOMAIN lyRendered : \A j \in DOMAIN lyRendered[i] :
      LET row == lyRendered[i][j] IN
      row.column.pk > 0 => (row.icons[1] = "Key" /\ row.targetHandle # <<>>)

\* C21: once a SQLite file was opened successfully from the upload view, the
\* database view dispatches to the SQLite service: the PostgreSQL flag it
\* branches on is off and no table shown was loaded from PostgreSQL.
C21_DispatchToOpenedBackend ==
  (/\ route = "/database"
   /\ uiEvent.op \in {"handleDrop", "handleButtonClick"}
   /\ uiEvent.navigated
   /\ uiEvent.failure = None)
    => (~isPostgresActive /\ tableData.src # "pg")

====
